---- MODULE Spec2Model ----
(***************************************************************************)
(* Sentiment inference service (sentiment_service.py): the model           *)
(* lifecycle driven by the startup hook, the single and batch request      *)
(* handlers, the running counters and the health / metrics views.          *)
(*                                                                         *)
(* Every piece of process state is indexed by a worker process: the        *)
(* module-level globals classifier, start_time, request_count and          *)
(* total_latency_ms exist once per process.  Inside one process the        *)
(* handlers are coroutines of one event loop: a handler that has been      *)
(* entered owns the loop until it returns, because none of them contains   *)
(* an await.  The handler bodies are nevertheless modelled statement by    *)
(* statement (task[w].pc), so that what another request could observe in   *)
(* the middle of a handler is decided by the scheduling rule LoopFree and  *)
(* not by the granularity of the model.                                    *)
(*                                                                         *)
(* A text is represented by its length (the only thing validation reads);  *)
(* texts of different lengths are different texts.  The timestamp of a     *)
(* response, a wall-clock reading nothing else depends on, is left out.    *)
(*                                                                         *)
(* The discovery beacon (mdns_service.py) is a separate process: its       *)
(* main() is modelled line by line in the variable advertiser, with a      *)
(* KeyboardInterrupt that can arrive between any two of its lines.         *)
(***************************************************************************)
EXTENDS Integers, Sequences, FiniteSets, TLC

VARIABLES
    classifier,        \* [worker -> None | "pipeline"]      global, line 62
    start_time,        \* [worker -> Nat]                    global, line 63
    request_count,     \* [worker -> Nat]                    global, line 64
    total_latency_ms,  \* [worker -> Int]                    global, line 65
    startup,           \* [worker -> position of the startup hook]
    pending,           \* [worker -> validated request bodies not yet dispatched]
    task,              \* [worker -> frame of the handler that owns the loop, or NoTask]
    resp,              \* the response emitted by the last step, or NoResp
    calls,             \* [worker -> invocations of the classification capability]
    passed,            \* [worker -> requests that passed the readiness check]
    applied,           \* [worker -> totals of the metric updates applied as a whole]
    answered,          \* [worker -> texts and latency of the requests answered after
                       \*            inference, and how many of them (late) with a 500]
    advertiser         \* the beacon process: position in main(), the Zeroconf
                       \* instance, its registration, main's local zeroconf

service == <<classifier, start_time, request_count, total_latency_ms, startup,
             pending, task, resp, calls, passed, applied, answered>>

vars == <<classifier, start_time, request_count, total_latency_ms, startup,
          pending, task, resp, calls, passed, applied, answered, advertiser>>

-----------------------------------------------------------------------------
(* Bounds of the exploration *)

MaxCalls == 3       \* capability invocations per worker (warm-up included)
MaxPending == 2     \* requests in flight per worker
MaxLatency == 1     \* largest measured duration, ms
MaxClock == 1       \* largest wall-clock reading, s
MaxCallsW == 3      \* capability invocations of all workers together
MaxPendingW == 1    \* requests in flight on all workers together
MaxBeats == 8       \* iterations of the beacon's keep-alive loop

(* Program constants *)

MinTextLength == 1
MaxTextLength == 5000
MinItems == 1
MaxItems == 100

None == "None"
\* line 41: WORKERS = int(os.getenv("WORKERS", "2"))
WORKERS == 2

MODEL_NAME == "distilbert-base-uncased-finetuned-sst-2-english"
SingleProcess == {1}
Workers == DOMAIN classifier

NoTask == [pc |-> "idle"]
NoResp == [kind |-> "none"]

\* main() of the beacon entered (line 123): nothing opened, nothing bound
AdvertiserStart ==
    [pc |-> "main", local_ip |-> None, instance |-> "none",
     registered |-> FALSE, zeroconf |-> "unbound", beats |-> 0,
     cause |-> "none", outcome |-> "running"]

-----------------------------------------------------------------------------
(* Request bodies *)

\* int((time.time() - start) * 1000): time.time() is the wall clock, which
\* may be set back while the call runs, so a measured duration may be
\* negative.
Latencies == (-1) .. MaxLatency
Clock == 0 .. MaxClock

\* n texts, no two neighbours alike
Repeat(n) == [i \in 1 .. n |-> IF i % 2 = 1 THEN MinTextLength ELSE MaxTextLength]

SentimentRequest(text, context) ==
    [kind |-> "analyze", text |-> text, context |-> context, texts |-> << >>]

BatchSentimentRequest(texts) ==
    [kind |-> "batch", text |-> 0, context |-> None, texts |-> texts]

AnalyzeBodies ==
    {SentimentRequest(0, None), SentimentRequest(MinTextLength, "guest_review"),
     SentimentRequest(MaxTextLength, None), SentimentRequest(MaxTextLength + 1, None)}

BatchBodies ==
    {BatchSentimentRequest(ts) :
        ts \in {<< >>, <<MinTextLength>>, <<MaxTextLength + 1, 0>>,
                Repeat(MaxItems), Repeat(MaxItems + 1)}}

Bodies == AnalyzeBodies \cup BatchBodies

\* Variant: the upper limits taken as exclusive.
ValidExclusive(body) ==
    IF body.kind = "analyze"
    THEN body.text >= MinTextLength /\ body.text < MaxTextLength
    ELSE Len(body.texts) >= MinItems /\ Len(body.texts) < MaxItems

\* Field(..., min_length=1, max_length=5000) / Field(..., min_items=1, max_items=100)
Valid(body) ==
    IF body.kind = "analyze"
    THEN body.text >= MinTextLength /\ body.text <= MaxTextLength
    ELSE Len(body.texts) >= MinItems /\ Len(body.texts) <= MaxItems

-----------------------------------------------------------------------------
(* The classification capability: opaque, deterministic in its input *)

Classify(text) ==
    [label |-> IF text % 2 = 1 THEN "POSITIVE" ELSE "NEGATIVE",
     score |-> IF text < MaxTextLength THEN 99 ELSE 65]

Pipeline(texts) == [i \in 1 .. Len(texts) |-> Classify(texts[i])]

Lower(label) ==
    CASE label = "POSITIVE" -> "positive"
      [] label = "NEGATIVE" -> "negative"
      [] OTHER -> label

-----------------------------------------------------------------------------
(* round(total / count, 2), in hundredths of a millisecond.  A quotient    *)
(* that lies exactly between two hundredths is rounded as its binary64     *)
(* value falls: n/200 for the odd n below goes up, the other odd n < 100   *)
(* go down.  Rounding is symmetric about zero.                             *)

TiesUp ==
    {1, 5, 7, 11, 13, 17, 19, 23, 27, 33, 39, 45, 51, 53, 55, 63, 65, 67,
     75, 77, 79, 81, 89, 91, 93}

RoundMagnitude(total, count) ==
    LET num == total * 100
        q == num \div count
        r == num % count
    IN  IF 2 * r < count THEN q
        ELSE IF 2 * r > count THEN q + 1
        ELSE IF (2 * q + 1) \in TiesUp THEN q + 1 ELSE q

Round2(total, count) ==
    IF total < 0
    THEN 0 - RoundMagnitude(0 - total, count)
    ELSE RoundMagnitude(total, count)

AvgLatency(total, count) == IF count > 0 THEN Round2(total, count) ELSE 0

-----------------------------------------------------------------------------
(* Scheduling: a request is dispatched, and a reader runs, only when no    *)
(* handler owns the worker's event loop.                                   *)

\* Variant: handlers that run on a thread pool (declared def, not async def)
\* are entered whatever another handler is doing.
LoopFreeThreaded(w) == TRUE

LoopFree(w) == task[w] = NoTask

\* The worker's state as a handler finds it on entry; inflight counts the
\* requests accepted and not yet answered, the entering one included.
Snapshot(w) ==
    [rc |-> request_count[w], tl |-> total_latency_ms[w],
     cl |-> classifier[w], st |-> start_time[w], calls |-> calls[w],
     inflight |-> Cardinality(pending[w])]

\* The response put on the wire, with the request it answers and the state
\* its handler was entered in.
Emit(w, kind, status, body, req, entry) ==
    resp' = [worker |-> w, kind |-> kind, status |-> status, body |-> body,
             req |-> req, entry |-> entry]

-----------------------------------------------------------------------------
Init ==
    /\ classifier = [w \in SingleProcess |-> None]
    /\ start_time = [w \in SingleProcess |-> 0]
    /\ request_count = [w \in SingleProcess |-> 0]
    /\ total_latency_ms = [w \in SingleProcess |-> 0]
    /\ startup = [w \in SingleProcess |-> "pending"]
    /\ pending = [w \in SingleProcess |-> {}]
    /\ task = [w \in SingleProcess |-> NoTask]
    /\ resp = NoResp
    /\ calls = [w \in SingleProcess |-> 0]
    /\ passed = [w \in SingleProcess |-> 0]
    /\ applied = [w \in SingleProcess |-> [n |-> 0, lat |-> 0]]
    /\ answered = [w \in SingleProcess |-> [n |-> 0, lat |-> 0, late |-> 0]]
    /\ advertiser = AdvertiserStart

-----------------------------------------------------------------------------
(* startup_event: load, then warm-up; any failure is re-raised.  The hook  *)
(* has no await, so it is one step of the worker's loop.                   *)

startup_event(w) ==
    /\ startup[w] = "pending"
    /\ LoopFree(w)
    /\ \E loadOk \in BOOLEAN, warmOk \in BOOLEAN :
         IF ~loadOk
         THEN \* pipeline(...) raises: the global is not assigned
              /\ startup' = [startup EXCEPT ![w] = "raised"]
              /\ UNCHANGED <<classifier, calls>>
         ELSE \* classifier = pipeline(...), then classifier(warmup_text)
              /\ classifier' = [classifier EXCEPT ![w] = "pipeline"]
              /\ calls' = [calls EXCEPT ![w] = @ + 1]
              /\ startup' = [startup EXCEPT ![w] = IF warmOk THEN "completed" ELSE "raised"]
    /\ resp' = NoResp
    /\ UNCHANGED <<start_time, request_count, total_latency_ms, pending, task,
                   passed, applied, answered>>

-----------------------------------------------------------------------------
(* Request parsing: the body is validated against its pydantic model       *)
(* before the handler is entered; an invalid body is answered 422 and      *)
(* never reaches the handler.  No two requests in flight at one worker     *)
(* carry the same body.                                                    *)

Receive(w, body) ==
    /\ LoopFree(w)
    /\ Cardinality(pending[w]) < MaxPending
    /\ body \notin pending[w]
    /\ IF Valid(body)
       THEN /\ pending' = [pending EXCEPT ![w] = @ \cup {body}]
            /\ resp' = NoResp
       ELSE /\ Emit(w, body.kind, 422, [detail |-> "validation error"], body, Snapshot(w))
            /\ UNCHANGED pending
    /\ UNCHANGED <<classifier, start_time, request_count, total_latency_ms,
                   startup, task, calls, passed, applied, answered>>

Frame(w, body) ==
    [pc |-> "infer", kind |-> body.kind, body |-> body, lat |-> 0,
     out |-> << >>, entry |-> Snapshot(w)]

-----------------------------------------------------------------------------
(* POST /analyze *)

\* Variant: the handler entered without the readiness check of lines 191-192.
analyze_check_unguarded(w, body) ==
    /\ LoopFree(w)
    /\ body \in pending[w]
    /\ body.kind = "analyze"
    /\ calls[w] < MaxCalls
    /\ pending' = [pending EXCEPT ![w] = @ \ {body}]
    /\ task' = [task EXCEPT ![w] = Frame(w, body)]
    /\ passed' = [passed EXCEPT ![w] = @ + 1]
    /\ resp' = NoResp
    /\ UNCHANGED <<classifier, start_time, request_count, total_latency_ms,
                   startup, calls, applied, answered>>

\* lines 189-192: if not classifier: raise HTTPException(503)
analyze_check(w, body) ==
    /\ LoopFree(w)
    /\ body \in pending[w]
    /\ body.kind = "analyze"
    /\ calls[w] < MaxCalls
    /\ pending' = [pending EXCEPT ![w] = @ \ {body}]
    /\ IF classifier[w] = None
       THEN /\ Emit(w, "analyze", 503, [detail |-> "Model not loaded"], body, Snapshot(w))
            /\ UNCHANGED <<task, passed>>
       ELSE /\ task' = [task EXCEPT ![w] = Frame(w, body)]
            /\ passed' = [passed EXCEPT ![w] = @ + 1]
            /\ resp' = NoResp
    /\ UNCHANGED <<classifier, start_time, request_count, total_latency_ms,
                   startup, calls, applied, answered>>

\* Variant: a failed inference marks the model as not loaded.
analyze_infer_poison(w) ==
    /\ task[w].pc = "infer"
    /\ task[w].kind = "analyze"
    /\ calls' = [calls EXCEPT ![w] = @ + 1]
    /\ classifier' = [classifier EXCEPT ![w] = None]
    /\ Emit(w, "analyze", 500, [detail |-> "inference failed"], task[w].body,
            task[w].entry)
    /\ task' = [task EXCEPT ![w] = NoTask]
    /\ UNCHANGED <<start_time, request_count, total_latency_ms,
                   startup, pending, passed, applied, answered>>

\* lines 196-198, and 218-220 when the capability raises
analyze_infer(w) ==
    /\ task[w].pc = "infer"
    /\ task[w].kind = "analyze"
    /\ calls' = [calls EXCEPT ![w] = @ + 1]
    /\ \E raised \in BOOLEAN, latency_ms \in Latencies :
         IF raised
         THEN /\ Emit(w, "analyze", 500, [detail |-> "inference failed"], task[w].body,
                   task[w].entry)
              /\ task' = [task EXCEPT ![w] = NoTask]
         ELSE /\ task' = [task EXCEPT ![w] =
                    [@ EXCEPT !.pc = "count", !.lat = latency_ms,
                              !.out = Pipeline(<<task[w].body.text>>)]]
              /\ resp' = NoResp
    /\ UNCHANGED <<classifier, start_time, request_count, total_latency_ms,
                   startup, pending, passed, applied, answered>>

\* Variant: request_count =+ 1, an assignment in place of the increment.
analyze_count_assign(w) ==
    /\ task[w].pc = "count"
    /\ task[w].kind = "analyze"
    /\ request_count' = [request_count EXCEPT ![w] = 1]
    /\ task' = [task EXCEPT ![w] = [@ EXCEPT !.pc = "latency"]]
    /\ resp' = NoResp
    /\ UNCHANGED <<classifier, start_time, total_latency_ms, startup, pending,
                   calls, passed, applied, answered>>

\* Variant: request_count held in memory shared by the worker processes.
analyze_count_shared(w) ==
    /\ task[w].pc = "count"
    /\ task[w].kind = "analyze"
    /\ request_count' = [v \in Workers |-> request_count[v] + 1]
    /\ task' = [task EXCEPT ![w] = [@ EXCEPT !.pc = "latency"]]
    /\ resp' = NoResp
    /\ UNCHANGED <<classifier, start_time, total_latency_ms, startup, pending,
                   calls, passed, applied, answered>>

\* line 201: request_count += 1
analyze_count(w) ==
    /\ task[w].pc = "count"
    /\ task[w].kind = "analyze"
    /\ request_count' = [request_count EXCEPT ![w] = @ + 1]
    /\ task' = [task EXCEPT ![w] = [@ EXCEPT !.pc = "latency"]]
    /\ resp' = NoResp
    /\ UNCHANGED <<classifier, start_time, total_latency_ms, startup, pending,
                   calls, passed, applied, answered>>

\* Variant: the latency total advanced by one per request, not by latency_ms.
analyze_latency_unit(w) ==
    /\ task[w].pc = "latency"
    /\ task[w].kind = "analyze"
    /\ total_latency_ms' = [total_latency_ms EXCEPT ![w] = @ + 1]
    /\ applied' = [applied EXCEPT ![w] = [n |-> @.n + 1, lat |-> @.lat + 1]]
    /\ task' = [task EXCEPT ![w] = [@ EXCEPT !.pc = "return"]]
    /\ resp' = NoResp
    /\ UNCHANGED <<classifier, start_time, request_count, startup, pending,
                   calls, passed, answered>>

\* line 202: total_latency_ms += latency_ms
analyze_latency(w) ==
    /\ task[w].pc = "latency"
    /\ task[w].kind = "analyze"
    /\ total_latency_ms' = [total_latency_ms EXCEPT ![w] = @ + task[w].lat]
    /\ applied' = [applied EXCEPT ![w] = [n |-> @.n + 1, lat |-> @.lat + task[w].lat]]
    /\ task' = [task EXCEPT ![w] = [@ EXCEPT !.pc = "return"]]
    /\ resp' = NoResp
    /\ UNCHANGED <<classifier, start_time, request_count, startup, pending,
                   calls, passed, answered>>

\* lines 208-216
SentimentResponse(result, latency_ms, context) ==
    [sentiment |-> Lower(result.label), score |-> result.score,
     label |-> result.label, source |-> "greengrass-edge",
     latency_ms |-> latency_ms, context |-> context]

\* lines 204-216, and 218-220 when building the response raises
\* (the slow-request warning of lines 205-206 writes a log line and no state)
analyze_return(w) ==
    /\ task[w].pc = "return"
    /\ task[w].kind = "analyze"
    /\ \E raised \in BOOLEAN :
         IF raised
         THEN /\ Emit(w, "analyze", 500, [detail |-> "response failed"], task[w].body,
                   task[w].entry)
              /\ answered' = [answered EXCEPT ![w] =
                    [@ EXCEPT !.n = @ + 1, !.lat = @ + task[w].lat, !.late = @ + 1]]
         ELSE /\ Emit(w, "analyze", 200,
                      SentimentResponse(task[w].out[1], task[w].lat,
                                        task[w].body.context),
                      task[w].body, task[w].entry)
              /\ answered' = [answered EXCEPT ![w] =
                    [@ EXCEPT !.n = @ + 1, !.lat = @ + task[w].lat]]
    /\ task' = [task EXCEPT ![w] = NoTask]
    /\ UNCHANGED <<classifier, start_time, request_count, total_latency_ms,
                   startup, pending, calls, passed, applied>>

-----------------------------------------------------------------------------
(* POST /analyze/batch *)

\* lines 264-267
batch_check(w, body) ==
    /\ LoopFree(w)
    /\ body \in pending[w]
    /\ body.kind = "batch"
    /\ calls[w] < MaxCalls
    /\ pending' = [pending EXCEPT ![w] = @ \ {body}]
    /\ IF classifier[w] = None
       THEN /\ Emit(w, "batch", 503, [detail |-> "Model not loaded"], body, Snapshot(w))
            /\ UNCHANGED <<task, passed>>
       ELSE /\ task' = [task EXCEPT ![w] = Frame(w, body)]
            /\ passed' = [passed EXCEPT ![w] = @ + 1]
            /\ resp' = NoResp
    /\ UNCHANGED <<classifier, start_time, request_count, total_latency_ms,
                   startup, calls, applied, answered>>

\* Variant: a failed batch inference drops the classifier.
batch_infer_poison(w) ==
    /\ task[w].pc = "infer"
    /\ task[w].kind = "batch"
    /\ calls' = [calls EXCEPT ![w] = @ + 1]
    /\ classifier' = [classifier EXCEPT ![w] = None]
    /\ Emit(w, "batch", 500, [detail |-> "inference failed"], task[w].body,
            task[w].entry)
    /\ task' = [task EXCEPT ![w] = NoTask]
    /\ UNCHANGED <<start_time, request_count, total_latency_ms,
                   startup, pending, passed, applied, answered>>

\* Variant: the batch classified by one capability call per text.
batch_infer_per_text(w) ==
    /\ task[w].pc = "infer"
    /\ task[w].kind = "batch"
    /\ calls' = [calls EXCEPT ![w] = @ + Len(task[w].body.texts)]
    /\ \E total_time_ms \in Latencies :
         /\ task' = [task EXCEPT ![w] =
                [@ EXCEPT !.pc = "count", !.lat = total_time_ms,
                          !.out = Pipeline(task[w].body.texts)]]
         /\ resp' = NoResp
    /\ UNCHANGED <<classifier, start_time, request_count, total_latency_ms,
                   startup, pending, passed, applied, answered>>

\* lines 271-273, and 301-303 when the capability raises
batch_infer(w) ==
    /\ task[w].pc = "infer"
    /\ task[w].kind = "batch"
    /\ calls' = [calls EXCEPT ![w] = @ + 1]
    /\ \E raised \in BOOLEAN, total_time_ms \in Latencies :
         IF raised
         THEN /\ Emit(w, "batch", 500, [detail |-> "inference failed"], task[w].body,
                   task[w].entry)
              /\ task' = [task EXCEPT ![w] = NoTask]
         ELSE /\ task' = [task EXCEPT ![w] =
                    [@ EXCEPT !.pc = "count", !.lat = total_time_ms,
                              !.out = Pipeline(task[w].body.texts)]]
              /\ resp' = NoResp
    /\ UNCHANGED <<classifier, start_time, request_count, total_latency_ms,
                   startup, pending, passed, applied, answered>>

\* line 276: request_count += len(request.texts)
batch_count(w) ==
    /\ task[w].pc = "count"
    /\ task[w].kind = "batch"
    /\ request_count' = [request_count EXCEPT ![w] = @ + Len(task[w].body.texts)]
    /\ task' = [task EXCEPT ![w] = [@ EXCEPT !.pc = "latency"]]
    /\ resp' = NoResp
    /\ UNCHANGED <<classifier, start_time, total_latency_ms, startup, pending,
                   calls, passed, applied, answered>>

\* Variant: int(total_time_ms / len(request.texts)), which rounds towards zero.
PerTextLatencyTruncated(total_time_ms, texts) ==
    IF total_time_ms >= 0
    THEN total_time_ms \div Len(texts)
    ELSE 0 - ((0 - total_time_ms) \div Len(texts))

\* line 280: per_text_latency = total_time_ms // len(request.texts)
PerTextLatency(total_time_ms, texts) == total_time_ms \div Len(texts)

\* Variant: the latency total advanced by N times the per-text value.
batch_latency_per_text(w) ==
    /\ task[w].pc = "latency"
    /\ task[w].kind = "batch"
    /\ LET sum == Len(task[w].body.texts) * PerTextLatency(task[w].lat, task[w].body.texts)
       IN  /\ total_latency_ms' = [total_latency_ms EXCEPT ![w] = @ + sum]
           /\ applied' = [applied EXCEPT ![w] =
                  [n |-> @.n + Len(task[w].body.texts), lat |-> @.lat + sum]]
    /\ task' = [task EXCEPT ![w] = [@ EXCEPT !.pc = "return"]]
    /\ resp' = NoResp
    /\ UNCHANGED <<classifier, start_time, request_count, startup, pending,
                   calls, passed, answered>>

\* line 277: total_latency_ms += total_time_ms
batch_latency(w) ==
    /\ task[w].pc = "latency"
    /\ task[w].kind = "batch"
    /\ total_latency_ms' = [total_latency_ms EXCEPT ![w] = @ + task[w].lat]
    /\ applied' = [applied EXCEPT ![w] =
            [n |-> @.n + Len(task[w].body.texts), lat |-> @.lat + task[w].lat]]
    /\ task' = [task EXCEPT ![w] = [@ EXCEPT !.pc = "return"]]
    /\ resp' = NoResp
    /\ UNCHANGED <<classifier, start_time, request_count, startup, pending,
                   calls, passed, answered>>

\* Variant: each text paired with the result at the mirrored position.
BatchResultsMirrored(texts, results, per_text_latency) ==
    [i \in 1 .. Len(texts) |->
        [text |-> texts[i], sentiment |-> Lower(results[Len(results) + 1 - i].label),
         score |-> results[Len(results) + 1 - i].score,
         label |-> results[Len(results) + 1 - i].label,
         latency_ms |-> per_text_latency]]

\* lines 285-294: one entry per pair of zip(request.texts, results)
BatchResults(texts, results, per_text_latency) ==
    [i \in 1 .. (IF Len(texts) < Len(results) THEN Len(texts) ELSE Len(results)) |->
        [text |-> texts[i], sentiment |-> Lower(results[i].label),
         score |-> results[i].score, label |-> results[i].label,
         latency_ms |-> per_text_latency]]

\* lines 284-299
BatchResponse(texts, results, total_time_ms) ==
    [results |-> BatchResults(texts, results, PerTextLatency(total_time_ms, texts)),
     source |-> "greengrass-edge", total_latency_ms |-> total_time_ms,
     count |-> Len(texts)]

\* lines 279-299, and 301-303 when building the response raises
batch_return(w) ==
    /\ task[w].pc = "return"
    /\ task[w].kind = "batch"
    /\ \E raised \in BOOLEAN :
         IF raised
         THEN /\ Emit(w, "batch", 500, [detail |-> "response failed"], task[w].body,
                   task[w].entry)
              /\ answered' = [answered EXCEPT ![w] =
                    [@ EXCEPT !.n = @ + Len(task[w].body.texts),
                              !.lat = @ + task[w].lat, !.late = @ + 1]]
         ELSE /\ Emit(w, "batch", 200,
                      BatchResponse(task[w].body.texts, task[w].out, task[w].lat),
                      task[w].body, task[w].entry)
              /\ answered' = [answered EXCEPT ![w] =
                    [@ EXCEPT !.n = @ + Len(task[w].body.texts), !.lat = @ + task[w].lat]]
    /\ task' = [task EXCEPT ![w] = NoTask]
    /\ UNCHANGED <<classifier, start_time, request_count, total_latency_ms,
                   startup, pending, calls, passed, applied>>

-----------------------------------------------------------------------------
(* GET /health and GET /metrics *)

Uptime(w, now) == now - start_time[w]

\* lines 139-151
HealthResponse(w, now) ==
    [status |-> IF classifier[w] # None THEN "healthy" ELSE "unhealthy",
     service |-> "sentiment", model |-> MODEL_NAME,
     uptime_seconds |-> Uptime(w, now),
     total_requests |-> request_count[w],
     avg_latency_ms |-> AvgLatency(total_latency_ms[w], request_count[w])]

\* Variant: the health probe counted as a request.
health_check_counted(w) ==
    /\ LoopFree(w)
    /\ \E now \in Clock :
         /\ now >= start_time[w]
         /\ Emit(w, "health", 200, HealthResponse(w, now), [kind |-> "health"],
                 Snapshot(w))
    /\ request_count' = [request_count EXCEPT ![w] = @ + 1]
    /\ UNCHANGED <<classifier, start_time, total_latency_ms,
                   startup, pending, task, calls, passed, applied, answered>>

health_check(w) ==
    /\ LoopFree(w)
    /\ \E now \in Clock :
         /\ now >= start_time[w]
         /\ Emit(w, "health", 200, HealthResponse(w, now), [kind |-> "health"],
                 Snapshot(w))
    /\ UNCHANGED <<classifier, start_time, request_count, total_latency_ms,
                   startup, pending, task, calls, passed, applied, answered>>

\* Variant: the readiness flag taken from the outcome of startup.
MetricsResponseByStartup(w, now) ==
    [sentiment_service_uptime_seconds |-> Uptime(w, now),
     sentiment_service_requests_total |-> request_count[w],
     sentiment_service_latency_avg_ms |->
         AvgLatency(total_latency_ms[w], request_count[w]),
     sentiment_service_latency_total_ms |-> total_latency_ms[w],
     sentiment_service_model |-> MODEL_NAME,
     sentiment_service_status |-> IF startup[w] = "completed" THEN 1 ELSE 0]

\* lines 316-328
MetricsResponse(w, now) ==
    [sentiment_service_uptime_seconds |-> Uptime(w, now),
     sentiment_service_requests_total |-> request_count[w],
     sentiment_service_latency_avg_ms |->
         AvgLatency(total_latency_ms[w], request_count[w]),
     sentiment_service_latency_total_ms |-> total_latency_ms[w],
     sentiment_service_model |-> MODEL_NAME,
     sentiment_service_status |-> IF classifier[w] # None THEN 1 ELSE 0]

get_metrics(w) ==
    /\ LoopFree(w)
    /\ \E now \in Clock :
         /\ now >= start_time[w]
         /\ Emit(w, "metrics", 200, MetricsResponse(w, now), [kind |-> "metrics"],
                 Snapshot(w))
    /\ UNCHANGED <<classifier, start_time, request_count, total_latency_ms,
                   startup, pending, task, calls, passed, applied, answered>>

-----------------------------------------------------------------------------
Next ==
    \/ \E w \in Workers :
          startup_event(w) /\ UNCHANGED advertiser
    \/ \E w \in Workers, body \in Bodies :
          Receive(w, body) /\ UNCHANGED advertiser
    \/ \E w \in Workers, body \in AnalyzeBodies :
          analyze_check(w, body) /\ UNCHANGED advertiser
    \/ \E w \in Workers :
          analyze_infer(w) /\ UNCHANGED advertiser
    \/ \E w \in Workers :
          analyze_count(w) /\ UNCHANGED advertiser
    \/ \E w \in Workers :
          analyze_latency(w) /\ UNCHANGED advertiser
    \/ \E w \in Workers :
          analyze_return(w) /\ UNCHANGED advertiser
    \/ \E w \in Workers, body \in BatchBodies :
          batch_check(w, body) /\ UNCHANGED advertiser
    \/ \E w \in Workers :
          batch_infer(w) /\ UNCHANGED advertiser
    \/ \E w \in Workers :
          batch_count(w) /\ UNCHANGED advertiser
    \/ \E w \in Workers :
          batch_latency(w) /\ UNCHANGED advertiser
    \/ \E w \in Workers :
          batch_return(w) /\ UNCHANGED advertiser
    \/ \E w \in Workers :
          health_check(w) /\ UNCHANGED advertiser
    \/ \E w \in Workers :
          get_metrics(w) /\ UNCHANGED advertiser

Spec == Init /\ [][Next]_vars

(* Several worker processes (uvicorn workers=WORKERS, lines 367-374): each  *)
(* process imports the module and so has its own globals (lines 62-65) and *)
(* runs its own startup hook and handlers.  The requests explored are      *)
(* limited across the workers together.                                    *)
WorkerProcesses == 1 .. WORKERS

InitW ==
    /\ classifier = [w \in WorkerProcesses |-> None]
    /\ start_time = [w \in WorkerProcesses |-> 0]
    /\ request_count = [w \in WorkerProcesses |-> 0]
    /\ total_latency_ms = [w \in WorkerProcesses |-> 0]
    /\ startup = [w \in WorkerProcesses |-> "pending"]
    /\ pending = [w \in WorkerProcesses |-> {}]
    /\ task = [w \in WorkerProcesses |-> NoTask]
    /\ resp = NoResp
    /\ calls = [w \in WorkerProcesses |-> 0]
    /\ passed = [w \in WorkerProcesses |-> 0]
    /\ applied = [w \in WorkerProcesses |-> [n |-> 0, lat |-> 0]]
    /\ answered = [w \in WorkerProcesses |-> [n |-> 0, lat |-> 0, late |-> 0]]
    /\ advertiser = AdvertiserStart

RECURSIVE SumOver(_, _)
SumOver(f, S) ==
    IF S = {}
    THEN 0
    ELSE LET x == CHOOSE y \in S : TRUE
         IN  f[x] + SumOver(f, S \ {x})

\* capability calls made or committed to, over all workers
CallsW ==
    SumOver(calls, Workers)
        + Cardinality({w \in Workers : task[w] # NoTask /\ task[w].pc = "infer"})

\* requests accepted and not yet taken up by a handler, over all workers
PendingW == SumOver([w \in Workers |-> Cardinality(pending[w])], Workers)

\* the requests sent to the workers: one of each endpoint, and one refused
BodiesW ==
    {SentimentRequest(1, "guest_review"),
     BatchSentimentRequest(<<MinTextLength>>),
     BatchSentimentRequest(<< >>)}

NextW ==
    \/ \E w \in Workers :
          startup_event(w) /\ UNCHANGED advertiser
    \/ \E w \in Workers, body \in BodiesW :
          /\ PendingW < MaxPendingW
          /\ CallsW + PendingW < MaxCallsW
          /\ Receive(w, body)
          /\ UNCHANGED advertiser
    \/ \E w \in Workers, body \in AnalyzeBodies :
          /\ CallsW < MaxCallsW
          /\ analyze_check(w, body)
          /\ UNCHANGED advertiser
    \/ \E w \in Workers :
          analyze_infer(w) /\ UNCHANGED advertiser
    \/ \E w \in Workers :
          analyze_count(w) /\ UNCHANGED advertiser
    \/ \E w \in Workers :
          analyze_latency(w) /\ UNCHANGED advertiser
    \/ \E w \in Workers :
          analyze_return(w) /\ UNCHANGED advertiser
    \/ \E w \in Workers, body \in BatchBodies :
          /\ CallsW < MaxCallsW
          /\ batch_check(w, body)
          /\ UNCHANGED advertiser
    \/ \E w \in Workers :
          batch_infer(w) /\ UNCHANGED advertiser
    \/ \E w \in Workers :
          batch_count(w) /\ UNCHANGED advertiser
    \/ \E w \in Workers :
          batch_latency(w) /\ UNCHANGED advertiser
    \/ \E w \in Workers :
          batch_return(w) /\ UNCHANGED advertiser
    \/ \E w \in Workers :
          health_check(w) /\ UNCHANGED advertiser
    \/ \E w \in Workers :
          get_metrics(w) /\ UNCHANGED advertiser

SpecW == InitW /\ [][NextW]_vars

-----------------------------------------------------------------------------
(* The discovery beacon, mdns_service.py.  One action per statement of     *)
(* main() and of the functions it calls; advertiser.pc names the statement *)
(* about to run.                                                           *)

Positions ==
    {"main", "get_local_ip", "ServiceInfo", "Zeroconf", "register_service",
     "return", "sleep", "heartbeat", "close", "raise", "crashed",
     "unregister_all_services", "shutdown_close", "done"}

\* the statements inside the try block of main(), lines 135-152
InTry ==
    {"get_local_ip", "ServiceInfo", "Zeroconf", "register_service", "return",
     "sleep", "heartbeat", "close", "raise"}

At(pc) == advertiser.pc = pc

\* lines 123-135: the log line and the properties, then into the try block
main ==
    /\ At("main")
    /\ advertiser' = [advertiser EXCEPT !.pc = "get_local_ip"]
    /\ UNCHANGED service

\* lines 30-46 (called at line 76): the address, or 127.0.0.1 on failure
get_local_ip ==
    /\ At("get_local_ip")
    /\ \E ip \in {"lan", "127.0.0.1"} :
         advertiser' = [advertiser EXCEPT !.pc = "ServiceInfo", !.local_ip = ip]
    /\ UNCHANGED service

\* lines 77-91
ServiceInfo ==
    /\ At("ServiceInfo")
    /\ advertiser' = [advertiser EXCEPT !.pc = "Zeroconf"]
    /\ UNCHANGED service

\* line 94, outside the try block of advertise_service: a failure goes
\* straight to the handler of main() at line 160
Zeroconf ==
    /\ At("Zeroconf")
    /\ \E ok \in BOOLEAN :
         advertiser' =
            IF ok
            THEN [advertiser EXCEPT !.pc = "register_service", !.instance = "open"]
            ELSE [advertiser EXCEPT !.pc = "crashed", !.cause = "error"]
    /\ UNCHANGED service

\* lines 96-104, and 111-112 when the registration raises
register_service ==
    /\ At("register_service")
    /\ \E ok \in BOOLEAN :
         advertiser' =
            IF ok
            THEN [advertiser EXCEPT !.pc = "return", !.registered = TRUE]
            ELSE [advertiser EXCEPT !.pc = "close", !.cause = "registration"]
    /\ UNCHANGED service

\* line 113: zeroconf.close()
advertise_close ==
    /\ At("close")
    /\ advertiser' = [advertiser EXCEPT !.pc = "raise", !.instance = "closed",
                                         !.registered = FALSE]
    /\ UNCHANGED service

\* line 114: raise, caught by main() at line 160
advertise_raise ==
    /\ At("raise")
    /\ advertiser' = [advertiser EXCEPT !.pc = "crashed"]
    /\ UNCHANGED service

\* lines 106-109 and the assignment of line 137
advertise_return ==
    /\ At("return")
    /\ advertiser' = [advertiser EXCEPT !.pc = "sleep", !.zeroconf = "bound"]
    /\ UNCHANGED service

\* lines 148-149
sleep ==
    /\ At("sleep")
    /\ advertiser.beats < MaxBeats
    /\ advertiser' = [advertiser EXCEPT !.pc = "heartbeat", !.beats = @ + 1]
    /\ UNCHANGED service

\* line 152
heartbeat ==
    /\ At("heartbeat")
    /\ advertiser' = [advertiser EXCEPT !.pc = "sleep"]
    /\ UNCHANGED service

\* A KeyboardInterrupt delivered before the statement at advertiser.pc.
\* Before the try block it leaves main() as it is.  Inside the try block no
\* except Exception clause catches it (lines 44, 111), so it reaches line
\* 154, whose handler reads main's local zeroconf: unbound until line 137
\* has assigned it, and then line 156 raises UnboundLocalError.
KeyboardInterrupt ==
    /\ advertiser.pc \in InTry \cup {"main"}
    /\ advertiser' =
          IF At("main")
          THEN [advertiser EXCEPT !.pc = "done", !.cause = "interrupt",
                                  !.outcome = "KeyboardInterrupt"]
          ELSE IF advertiser.zeroconf = "bound"
          THEN [advertiser EXCEPT !.pc = "unregister_all_services",
                                  !.cause = "interrupt"]
          ELSE [advertiser EXCEPT !.pc = "done", !.cause = "interrupt",
                                  !.outcome = "UnboundLocalError"]
    /\ UNCHANGED service

\* lines 155-156
shutdown_unregister ==
    /\ At("unregister_all_services")
    /\ advertiser' = [advertiser EXCEPT !.pc = "shutdown_close",
                                         !.registered = FALSE]
    /\ UNCHANGED service

\* lines 157-158: zeroconf.close(), and main() returns
shutdown_close ==
    /\ At("shutdown_close")
    /\ advertiser' = [advertiser EXCEPT !.pc = "done", !.instance = "closed",
                                         !.outcome = "stopped"]
    /\ UNCHANGED service

\* lines 160-162: logged and re-raised
main_crashed ==
    /\ At("crashed")
    /\ advertiser' = [advertiser EXCEPT !.pc = "done", !.outcome = "reraised"]
    /\ UNCHANGED service

NextAdvertiser ==
    \/ main
    \/ get_local_ip
    \/ ServiceInfo
    \/ Zeroconf
    \/ register_service
    \/ advertise_close
    \/ advertise_raise
    \/ advertise_return
    \/ sleep
    \/ heartbeat
    \/ KeyboardInterrupt
    \/ shutdown_unregister
    \/ shutdown_close
    \/ main_crashed

SpecAdvertiser == Init /\ [][NextAdvertiser]_vars

TypeOK ==
    /\ \A w \in Workers :
         /\ classifier[w] \in {None, "pipeline"}
         /\ startup[w] \in {"pending", "completed", "raised"}
         /\ request_count[w] \in Nat
         /\ total_latency_ms[w] \in Int
         /\ calls[w] \in 0 .. MaxCalls
         /\ Cardinality(pending[w]) <= MaxPending
    /\ advertiser.pc \in Positions
    /\ advertiser.instance \in {"none", "open", "closed"}
    /\ advertiser.registered \in BOOLEAN
    /\ advertiser.zeroconf \in {"unbound", "bound"}
    /\ advertiser.beats \in 0 .. MaxBeats

-----------------------------------------------------------------------------
(* Properties *)

IsResp(kinds) == resp.kind \in kinds

\* a response to a request whose body passed validation
Handled == IsResp({"analyze", "batch"}) /\ resp.status # 422

\* C1: while the classifier is not set (before the load, or after a load
\* that failed), every valid POST /analyze and POST /analyze/batch is
\* answered 503, the capability has not been invoked, and the worker is
\* left idle, ready for the next request.
Thm_C1 ==
    /\ \A w \in Workers : classifier[w] = None => calls[w] = 0
    /\ (Handled /\ classifier[resp.worker] = None) =>
          /\ resp.status = 503
          /\ resp.body.detail = "Model not loaded"
          /\ calls[resp.worker] = resp.entry.calls
          /\ task[resp.worker] = NoTask

Witness_C1 ==
    /\ Handled
    /\ resp.status = 503
    /\ startup[resp.worker] = "raised"
    /\ pending[resp.worker] # {}

\* C2: GET /health reports "healthy" exactly in the states in which the
\* startup sequence has completed both the load and the warm-up; in every
\* other state it reports "unhealthy".
Claim_C2 ==
    IsResp({"health"}) =>
        (resp.body.status = "healthy" <=> startup[resp.worker] = "completed")

\* C3: once the load or the warm-up has raised during startup, readiness
\* is false in every later state: health reports "unhealthy", metrics
\* report status 0, analyze requests are answered 503 and no handler ever
\* gets to run an inference.
Claim_C3 ==
    /\ \A w \in Workers : startup[w] = "raised" => task[w] = NoTask
    /\ (IsResp({"health"}) /\ startup[resp.worker] = "raised") =>
          resp.body.status = "unhealthy"
    /\ (IsResp({"metrics"}) /\ startup[resp.worker] = "raised") =>
          resp.body.sentiment_service_status = 0
    /\ (Handled /\ startup[resp.worker] = "raised") => resp.status = 503

\* C4: no update is lost.  Whenever no handler is running and every
\* request answered after inference was answered successfully, the
\* counters equal the totals of those answers: one per single-text request
\* and its returned latency_ms, whatever the order in which the requests in
\* flight were served.
Thm_C4 ==
    \A w \in Workers :
        (LoopFree(w) /\ answered[w].late = 0) =>
            /\ request_count[w] = answered[w].n
            /\ total_latency_ms[w] = answered[w].lat

Witness_C4 ==
    /\ IsResp({"analyze"})
    /\ resp.status = 200
    /\ resp.entry.rc >= 1
    /\ resp.entry.inflight >= 2
    /\ resp.body.latency_ms >= 1
    /\ answered[resp.worker].late = 0
    /\ request_count[resp.worker] = resp.entry.rc + 1

\* C5: every (request_count, total_latency_ms) pair a GET /health or
\* GET /metrics reads is the result of a whole number of updates: the count
\* it reports, and the latency total or the average it reports, are those
\* of the updates applied as complete pairs.
Thm_C5 ==
    /\ IsResp({"health"}) =>
          /\ resp.body.total_requests = applied[resp.worker].n
          /\ resp.body.avg_latency_ms =
                AvgLatency(applied[resp.worker].lat, applied[resp.worker].n)
    /\ IsResp({"metrics"}) =>
          /\ resp.body.sentiment_service_requests_total = applied[resp.worker].n
          /\ resp.body.sentiment_service_latency_total_ms = applied[resp.worker].lat

Witness_C5 ==
    /\ IsResp({"metrics"})
    /\ resp.body.sentiment_service_requests_total >= 2
    /\ resp.body.sentiment_service_latency_total_ms >= 1
    /\ pending[resp.worker] # {}

\* C6: a successful batch response for N texts (1 <= N <= 100) has
\* count = N and N results, and results[i] carries texts[i] with the
\* classification the capability returned at position i.
Thm_C6 ==
    (IsResp({"batch"}) /\ resp.status = 200) =>
        LET texts == resp.req.texts
            N == Len(texts)
        IN  /\ N >= 1 /\ N <= 100
            /\ resp.body.count = N
            /\ Len(resp.body.results) = N
            /\ \A i \in 1 .. N :
                 /\ resp.body.results[i].text = texts[i]
                 /\ resp.body.results[i].label = Pipeline(texts)[i].label
                 /\ resp.body.results[i].score = Pipeline(texts)[i].score
                 /\ resp.body.results[i].sentiment = Lower(Pipeline(texts)[i].label)

Witness_C6 ==
    /\ IsResp({"batch"})
    /\ resp.status = 200
    /\ Len(resp.req.texts) = 100
    /\ resp.body.results[1].label # resp.body.results[2].label

\* C7 as stated: after any sequence of requests the capability has been
\* invoked once for the warm-up plus once per analyze or batch request that
\* passed the readiness check.
Claim_C7 ==
    \A w \in Workers : LoopFree(w) => calls[w] = 1 + passed[w]

\* C7 amended: the capability has been invoked once per analyze or batch
\* request that passed the readiness check, a batch of N texts counting
\* once, plus the warm-up invocation of startup: one once the load has
\* succeeded, none before startup has run or when the load failed.
Thm_C7 ==
    \A w \in Workers :
        LoopFree(w) =>
            calls[w] = (IF classifier[w] # None THEN 1 ELSE 0) + passed[w]

Witness_C7 ==
    /\ IsResp({"batch"})
    /\ resp.status = 200
    /\ Len(resp.req.texts) = 100
    /\ passed[resp.worker] = 2
    /\ calls[resp.worker] = 3

\* C8: a single-text request is answered 422 exactly when its text has
\* length 0 or more than 5000, a batch request exactly when it has 0 or
\* more than 100 texts; only requests within the limits are accepted, and a
\* rejected request reaches no handler and leaves the counters and the
\* capability's invocation count as they were.
InLimits(body) ==
    IF body.kind = "analyze"
    THEN body.text \in 1 .. 5000
    ELSE Len(body.texts) \in 1 .. 100

Thm_C8 ==
    /\ \A w \in Workers :
         /\ \A body \in pending[w] : InLimits(body)
         /\ task[w] # NoTask => InLimits(task[w].body)
    /\ IsResp({"analyze", "batch"}) =>
          /\ resp.status = 422 <=> ~InLimits(resp.req)
          /\ resp.status = 422 =>
                /\ request_count[resp.worker] = resp.entry.rc
                /\ total_latency_ms[resp.worker] = resp.entry.tl
                /\ calls[resp.worker] = resp.entry.calls
                /\ task[resp.worker] = NoTask

Witness_C8 ==
    /\ IsResp({"batch"})
    /\ resp.status = 422
    /\ Len(resp.req.texts) = 101
    /\ request_count[resp.worker] >= 1
    /\ SentimentRequest(5000, None) \in pending[resp.worker]

\* C9: a successful single-text request leaves request_count one above,
\* and total_latency_ms the returned latency_ms above, what the handler
\* found on entry, and the classifier and start_time as it found them.
Thm_C9 ==
    (IsResp({"analyze"}) /\ resp.status = 200) =>
        /\ request_count[resp.worker] = resp.entry.rc + 1
        /\ total_latency_ms[resp.worker] = resp.entry.tl + resp.body.latency_ms
        /\ classifier[resp.worker] = resp.entry.cl
        /\ start_time[resp.worker] = resp.entry.st

Witness_C9 ==
    /\ IsResp({"analyze"})
    /\ resp.status = 200
    /\ resp.body.latency_ms = 0
    /\ resp.entry.tl >= 1

\* C10: a successful batch request of N texts leaves request_count N
\* above, and total_latency_ms the returned total_latency_ms above, what
\* the handler found on entry.
Thm_C10 ==
    (IsResp({"batch"}) /\ resp.status = 200) =>
        /\ request_count[resp.worker] = resp.entry.rc + Len(resp.req.texts)
        /\ total_latency_ms[resp.worker] = resp.entry.tl + resp.body.total_latency_ms
        /\ applied[resp.worker].n = resp.entry.rc + resp.body.count

Witness_C10 ==
    /\ IsResp({"batch"})
    /\ resp.status = 200
    /\ Len(resp.req.texts) = 2
    /\ resp.body.total_latency_ms = 1
    /\ resp.body.results[1].latency_ms = 0

\* C11: request_count and total_latency_ms start at 0 and no step of any
\* execution, whatever the durations measured, takes either of them below
\* its previous value.
Claim_C11 ==
    [][\A w \in Workers :
          /\ request_count'[w] >= request_count[w]
          /\ total_latency_ms'[w] >= total_latency_ms[w]]_vars

\* C12: GET /health and GET /metrics always answer 200 and leave the
\* classifier, request_count, total_latency_ms and start_time as they found
\* them, also with no request counted yet and with the model not ready.
Thm_C12 ==
    IsResp({"health", "metrics"}) =>
        /\ resp.status = 200
        /\ classifier[resp.worker] = resp.entry.cl
        /\ request_count[resp.worker] = resp.entry.rc
        /\ total_latency_ms[resp.worker] = resp.entry.tl
        /\ start_time[resp.worker] = resp.entry.st
        /\ task[resp.worker] = NoTask

Witness_C12 ==
    /\ IsResp({"health"})
    /\ resp.status = 200
    /\ resp.body.status = "unhealthy"
    /\ resp.body.total_requests = 0
    /\ resp.body.avg_latency_ms = 0
    /\ pending[resp.worker] # {}

\* C13: when the capability raises during a single or batch request the
\* request is answered 500 with the failure message, and the worker is left
\* as the handler found it: classifier set, counters untouched, no handler
\* running, so that later requests are served.
Thm_C13 ==
    (Handled /\ resp.status = 500 /\ resp.body.detail = "inference failed") =>
        /\ resp.entry.cl # None
        /\ classifier[resp.worker] = resp.entry.cl
        /\ request_count[resp.worker] = resp.entry.rc
        /\ total_latency_ms[resp.worker] = resp.entry.tl
        /\ calls[resp.worker] = resp.entry.calls + 1
        /\ task[resp.worker] = NoTask

\* a request served after an earlier one failed in the capability
Witness_C13 ==
    /\ IsResp({"analyze"})
    /\ resp.status = 200
    /\ startup[resp.worker] = "completed"
    /\ passed[resp.worker] = 2
    /\ answered[resp.worker] = [n |-> 1, lat |-> resp.body.latency_ms, late |-> 0]

ReportedAvg ==
    IF IsResp({"health"})
    THEN resp.body.avg_latency_ms
    ELSE resp.body.sentiment_service_latency_avg_ms

Claim_C15 ==
    IsResp({"health", "metrics"}) =>
        /\ request_count[resp.worker] = 0 => ReportedAvg = 0
        /\ request_count[resp.worker] > 0 =>
              ReportedAvg = Round2(total_latency_ms[resp.worker],
                                   request_count[resp.worker])
        /\ ReportedAvg >= 0

\* C16: only the startup hook assigns the classifier: a step changes it
\* only by running startup, and once startup has run no step changes it.
Thm_C16 ==
    [][\A w \in Workers :
          classifier'[w] # classifier[w] =>
              (startup[w] = "pending" /\ startup'[w] # "pending")]_vars

Witness_C16 ==
    /\ Handled
    /\ resp.status = 500
    /\ startup[resp.worker] = "completed"
    /\ classifier[resp.worker] = "pipeline"
    /\ request_count[resp.worker] >= 1
    /\ answered[resp.worker].late >= 1

\* C17: with several worker processes each worker's counters are those of
\* the requests it served itself: between handlers request_count[w] and
\* total_latency_ms[w] are the totals of the updates made by w's own
\* handlers, a handler of w in progress leaves every other worker's counters
\* alone, and /health and /metrics answered by w report w's own requests.
Thm_C17 ==
    /\ \A w \in Workers :
         /\ request_count[w] >= applied[w].n
         /\ LoopFree(w) =>
               /\ request_count[w] = applied[w].n
               /\ total_latency_ms[w] = applied[w].lat
    /\ IsResp({"health"}) =>
          resp.body.total_requests = request_count[resp.worker]
    /\ IsResp({"metrics"}) =>
          /\ resp.body.sentiment_service_requests_total = request_count[resp.worker]
          /\ resp.body.sentiment_service_latency_total_ms =
                total_latency_ms[resp.worker]

\* a ready worker that served nothing reports 0 while another has served
Witness_C17 ==
    /\ IsResp({"health"})
    /\ resp.body.status = "healthy"
    /\ resp.body.total_requests = 0
    /\ \E v \in Workers \ {resp.worker} :
          /\ request_count[v] >= 1
          /\ LoopFree(v)

\* C18: every analyze or batch request answered with an error (422, 503 or
\* 500, the failure while shaping the response after the classifier
\* returned included) leaves request_count and total_latency_ms as they were
\* when the request came in.
Claim_C18 ==
    (IsResp({"analyze", "batch"}) /\ resp.status # 200) =>
        /\ request_count[resp.worker] = resp.entry.rc
        /\ total_latency_ms[resp.worker] = resp.entry.tl

\* C19: evaluated in the same state, /health and /metrics agree: status
\* "healthy" exactly with status 1, the same request total, the same
\* average latency.
Thm_C19 ==
    \A w \in Workers : \A now \in Clock :
        LET h == HealthResponse(w, now)
            m == MetricsResponse(w, now)
        IN  /\ h.status = "healthy" <=> m.sentiment_service_status = 1
            /\ h.status \in {"healthy", "unhealthy"}
            /\ m.sentiment_service_status \in {0, 1}
            /\ h.total_requests = m.sentiment_service_requests_total
            /\ h.avg_latency_ms = m.sentiment_service_latency_avg_ms
            /\ h.uptime_seconds = m.sentiment_service_uptime_seconds

Witness_C19 ==
    /\ IsResp({"metrics"})
    /\ resp.body.sentiment_service_status = 1
    /\ resp.body.sentiment_service_requests_total = 2
    /\ resp.body.sentiment_service_latency_avg_ms = 50
    /\ HealthResponse(resp.worker, 0).avg_latency_ms = 50
    /\ HealthResponse(resp.worker, 0).status = "healthy"

\* C20: when main() of the beacon has ended because of a KeyboardInterrupt
\* or a registration failure, whenever it arrived, no Zeroconf instance it
\* opened is still open, no service is registered, and main() ended with
\* the shutdown handled or the original error re-raised or propagating,
\* not with another error.
Claim_C20 ==
    (At("done") /\ advertiser.cause \in {"interrupt", "registration"}) =>
        /\ advertiser.instance # "open"
        /\ ~advertiser.registered
        /\ advertiser.outcome \in {"stopped", "reraised", "KeyboardInterrupt"}

====
